---- MODULE Spec2Model ----
(***************************************************************************)
(* Model of microscope.cameras.ximea.XimeaCamera: the acquisition flag,    *)
(* the scoped disable helper, the ROI negotiation of _set_roi and the      *)
(* trigger mapping, run against a device handle whose calls can fail; and  *)
(* the emission queries of microscope.lasers.cobolt.CoboltLaser.           *)
(*                                                                         *)
(* Every method is an operator from a call state to a call state.  A call  *)
(* state holds the object's fields, the device handle, the exception that  *)
(* is propagating (exc) and what the call has done to the handle so far.   *)
(* An operator applied to a state in which an exception propagates returns *)
(* it unchanged: that is how the statements after a raise are skipped.     *)
(***************************************************************************)
EXTENDS Integers, Sequences, FiniteSets, TLC

VARIABLES handle, _roi, _acquiring, enabled, _trigger_map, active_spec, obs,
          main_pc, fetch, laser

vars == <<handle, _roi, _acquiring, enabled, _trigger_map, active_spec, obs,
          main_pc, fetch, laser>>

(***************************************************************************)
(* Error codes (ximea.py:78-83) and the geometry of the modelled sensor.   *)
(***************************************************************************)
_XI_TIMEOUT == 10
_XI_INVALID_ARGUMENTS == 11
_XI_ACQUISITION_STOPED == 45
_XI_UNKNOWN_PARAM == 100

\* get_width_maximum() + get_offsetX_maximum(), and the same for the height
SensorWidth == 8
SensorHeight == 4
\* what get_width_increment() ... get_offsetY_increment() report
WidthIncrement == 4
HeightIncrement == 2
OffsetXIncrement == 2
OffsetYIncrement == 2

_sensor_shape == <<SensorWidth, SensorHeight>>

\* Bounds of the fault injection: a burst of at most MaxBurst consecutive
\* failing handle calls starts after at most MaxAfter successful ones.
MaxAfter == 10
MaxBurst == 1
\* The depth at which the interpreter refuses a further nested call, counted
\* in nested calls of _set_roi.
RecursionLimit == 3

ROI(left, top, width, height) ==
    [left |-> left, top |-> top, width |-> width, height |-> height]

(***************************************************************************)
(* Trigger types, modes and the table of native (source, selector) pairs.  *)
(* The table's literal names the key (RISING_EDGE, ONCE) twice with the    *)
(* same value, so the dictionary has three entries.                        *)
(***************************************************************************)
TriggerType == {"SOFTWARE", "RISING_EDGE", "FALLING_EDGE"}
TriggerMode == {"ONCE", "STROBE", "BULB"}

\* a defective table: software/strobe given the pair of software/once
TRIGGER_TABLE_shadowed ==
    (<<"SOFTWARE", "STROBE">> :> <<"XI_TRG_SOFTWARE", "XI_TRG_SEL_FRAME_START">>)
    @@ (<<"SOFTWARE", "ONCE">> :> <<"XI_TRG_SOFTWARE", "XI_TRG_SEL_FRAME_START">>)
    @@ (<<"RISING_EDGE", "ONCE">> :> <<"XI_TRG_EDGE_RISING", "XI_TRG_SEL_FRAME_START">>)

\* TriggerType x TriggerMode -> (trigger source, trigger selector)
TRIGGER_TABLE ==
    (<<"SOFTWARE", "STROBE">> :> <<"XI_TRG_OFF", "XI_TRG_SEL_FRAME_START">>)
    @@ (<<"SOFTWARE", "ONCE">> :> <<"XI_TRG_SOFTWARE", "XI_TRG_SEL_FRAME_START">>)
    @@ (<<"RISING_EDGE", "ONCE">> :> <<"XI_TRG_EDGE_RISING", "XI_TRG_SEL_FRAME_START">>)

SoftwareOnce == <<"SOFTWARE", "ONCE">>

(***************************************************************************)
(* Exceptions.  kind is the Python class, status the Xi_error status.      *)
(***************************************************************************)
NoExc == [kind |-> "none", status |-> 0]
Xi_error(status) == [kind |-> "Xi_error", status |-> status]
PyExc(kind) == [kind |-> kind, status |-> 0]

Raised(s) == s.exc.kind # "none"
Raise(s, e) == [s EXCEPT !.exc = e]
Clear(s) == [s EXCEPT !.exc = NoExc]

\* What a handle call can fail with besides the handle's own validation:
\* an Xi_error of a status other than invalid-arguments, or an exception
\* that is no Xi_error.
Faults == {Xi_error(_XI_TIMEOUT), PyExc("Exception")}

\* A plan: the calls numbered after+1 .. after+len of the operation fail.
NoPlan == [after |-> 0, len |-> 0, exc |-> NoExc]

Plans ==
    {NoPlan}
    \cup [after : 0..MaxAfter, len : 1..MaxBurst, exc : Faults]

\* A device that fails for good: every call after the first `after` fails.
Forever == -1
PersistentPlans == [after : 0..MaxAfter, len : {Forever}, exc : Faults]

(***************************************************************************)
(* The device handle.  Tick counts a call, records it, and makes it fail   *)
(* when the plan says so; a failed call changes nothing in the device.     *)
(***************************************************************************)
GeometryCalls == {"set_offsetX", "set_offsetY", "set_width", "set_height"}
TriggerCalls == {"set_trigger_source", "set_trigger_selector"}
AcquisitionCalls == {"start_acquisition", "stop_acquisition"}

Tick(s, call) ==
    LET k == s.n + 1
        failing == k > s.plan.after
                   /\ (s.plan.len = Forever
                       \/ (s.plan.len > 0 /\ k <= s.plan.after + s.plan.len))
        e == IF failing THEN s.plan.exc ELSE NoExc
    IN [s EXCEPT
          !.n = k,
          !.called = TRUE,
          !.exc = e,
          !.fault = IF failing THEN s.plan.exc ELSE @,
          !.acq_calls = IF call \in AcquisitionCalls
                        THEN Append(@, [call |-> call, ok |-> ~failing,
                                        flag |-> s._acquiring])
                        ELSE @,
          !.geometry_writes = @ \/ call \in GeometryCalls,
          !.trigger_writes = @ \/ call \in TriggerCalls,
          !.written_acquiring =
              @ \/ (call \in GeometryCalls \cup TriggerCalls
                    /\ s.handle.acquiring)]

start_acquisition(s) ==
    IF Raised(s) THEN s
    ELSE LET Effect(t) ==
                 IF Raised(t) THEN t ELSE [t EXCEPT !.handle.acquiring = TRUE]
         IN Effect(Tick(s, "start_acquisition"))

stop_acquisition(s) ==
    IF Raised(s) THEN s
    ELSE LET Effect(t) ==
                 IF Raised(t) THEN t ELSE [t EXCEPT !.handle.acquiring = FALSE]
         IN Effect(Tick(s, "stop_acquisition"))

\* The handle validates a size against the current offset and an offset
\* against the current size, and accepts only multiples of the increment.
set_width(s, v) ==
    IF Raised(s) THEN s
    ELSE LET Effect(t) ==
                 IF Raised(t) THEN t
                 ELSE IF v % WidthIncrement # 0 \/ v <= 0
                         \/ v + t.handle.offsetX > SensorWidth
                      THEN Raise(t, Xi_error(_XI_INVALID_ARGUMENTS))
                      ELSE [t EXCEPT !.handle.width = v]
         IN Effect(Tick(s, "set_width"))

set_height(s, v) ==
    IF Raised(s) THEN s
    ELSE LET Effect(t) ==
                 IF Raised(t) THEN t
                 ELSE IF v % HeightIncrement # 0 \/ v <= 0
                         \/ v + t.handle.offsetY > SensorHeight
                      THEN Raise(t, Xi_error(_XI_INVALID_ARGUMENTS))
                      ELSE [t EXCEPT !.handle.height = v]
         IN Effect(Tick(s, "set_height"))

set_offsetX(s, v) ==
    IF Raised(s) THEN s
    ELSE LET Effect(t) ==
                 IF Raised(t) THEN t
                 ELSE IF v % OffsetXIncrement # 0 \/ v < 0
                         \/ v + t.handle.width > SensorWidth
                      THEN Raise(t, Xi_error(_XI_INVALID_ARGUMENTS))
                      ELSE [t EXCEPT !.handle.offsetX = v]
         IN Effect(Tick(s, "set_offsetX"))

set_offsetY(s, v) ==
    IF Raised(s) THEN s
    ELSE LET Effect(t) ==
                 IF Raised(t) THEN t
                 ELSE IF v % OffsetYIncrement # 0 \/ v < 0
                         \/ v + t.handle.height > SensorHeight
                      THEN Raise(t, Xi_error(_XI_INVALID_ARGUMENTS))
                      ELSE [t EXCEPT !.handle.offsetY = v]
         IN Effect(Tick(s, "set_offsetY"))

\* get_*_increment(): a read, which can fail like any other call
get_increment(s) == IF Raised(s) THEN s ELSE Tick(s, "get_increment")

set_trigger_source(s, v) ==
    IF Raised(s) THEN s
    ELSE LET Effect(t) ==
                 IF Raised(t) THEN t ELSE [t EXCEPT !.handle.trigger_source = v]
         IN Effect(Tick(s, "set_trigger_source"))

set_trigger_selector(s, v) ==
    IF Raised(s) THEN s
    ELSE LET Effect(t) ==
                 IF Raised(t) THEN t ELSE [t EXCEPT !.handle.trigger_selector = v]
         IN Effect(Tick(s, "set_trigger_selector"))

set_trigger_software(s) ==
    IF Raised(s) THEN s
    ELSE LET Effect(t) == IF Raised(t) THEN t ELSE [t EXCEPT !.pulses = @ + 1]
         IN Effect(Tick(s, "set_trigger_software"))

(***************************************************************************)
(* Acquisition: abort, _do_disable, _do_enable, and the enable()/disable() *)
(* of the base class, which run them and keep the enabled attribute.       *)
(***************************************************************************)
\* a defective abort: the flag is not put back when the stop call fails
abort_no_rollback(s) ==
    IF Raised(s) THEN s
    ELSE IF s._acquiring
         THEN stop_acquisition([s EXCEPT !._acquiring = FALSE])
         ELSE s

abort(s) ==
    IF Raised(s) THEN s
    ELSE IF s._acquiring
         THEN LET Stopped(t) ==
                      IF Raised(t) THEN [t EXCEPT !._acquiring = TRUE] ELSE t
              IN Stopped(stop_acquisition([s EXCEPT !._acquiring = FALSE]))
         ELSE s

_do_disable(s) == abort(s)

\* close_device(): the handle is closed, and a closed handle acquires nothing
close_device(s) ==
    IF Raised(s) THEN s
    ELSE LET Effect(t) ==
                 IF Raised(t) THEN t
                 ELSE [t EXCEPT !.handle.CAM_OPEN = FALSE,
                                !.handle.acquiring = FALSE]
         IN Effect(Tick(s, "close_device"))

\* _do_shutdown: the handle is stopped if the flag is set, then closed if open
_do_shutdown(s) ==
    IF Raised(s) THEN s
    ELSE LET Close(t) ==
                 IF Raised(t) THEN t
                 ELSE IF t.handle.CAM_OPEN THEN close_device(t) ELSE t
         IN Close(IF s._acquiring THEN stop_acquisition(s) ELSE s)

\* defective _do_enable: without the abort; with the flag set before the start
_do_enable_no_abort(s) ==
    IF Raised(s) THEN s
    ELSE LET Started(u) ==
                 IF Raised(u) THEN u ELSE [u EXCEPT !._acquiring = TRUE]
         IN Started(start_acquisition(s))

_do_enable_flag_first(s) ==
    IF Raised(s) THEN s
    ELSE LET Start(t) ==
                 IF Raised(t) THEN t
                 ELSE start_acquisition([t EXCEPT !._acquiring = TRUE])
         IN Start(IF s._acquiring THEN abort(s) ELSE s)

_do_enable(s) ==
    IF Raised(s) THEN s
    ELSE LET Started(u) ==
                 IF Raised(u) THEN u ELSE [u EXCEPT !._acquiring = TRUE]
         IN Started(start_acquisition(IF s._acquiring THEN abort(s) ELSE s))

enable(s) ==
    IF Raised(s) THEN s
    ELSE LET Result(t) == IF Raised(t) THEN t ELSE [t EXCEPT !.enabled = TRUE]
         IN Result(_do_enable(s))

disable(s) ==
    IF Raised(s) THEN s
    ELSE LET Result(t) == IF Raised(t) THEN t ELSE [t EXCEPT !.enabled = FALSE]
         IN Result(_do_disable(s))

\* try: ... finally: f -- f runs whatever the block did; an exception of f
\* replaces the block's, otherwise the block's goes on propagating.
FinallyEnable(t) ==
    LET Leave(u) == IF Raised(u) THEN u ELSE [u EXCEPT !.exc = t.exc]
    IN Leave(enable(Clear(t)))

\* a defective entry: the block is run without the camera being disabled
_disabled_camera_enter_no_disable(s) == s

\* with _disabled_camera(self): entry, and exit given the state at entry
_disabled_camera_enter(s) ==
    IF Raised(s) THEN s ELSE IF s.enabled THEN disable(s) ELSE s

\* a defective exit: the camera is enabled again only when the block
\* returned normally
_disabled_camera_exit_no_finally(s0, t) ==
    IF Raised(s0) THEN s0
    ELSE IF s0.enabled /\ ~Raised(t) THEN FinallyEnable(t) ELSE t

_disabled_camera_exit(s0, t) ==
    IF Raised(s0) THEN s0 ELSE IF s0.enabled THEN FinallyEnable(t) ELSE t

(***************************************************************************)
(* ROI.  round() is Python's: to the nearest integer, a half to the even   *)
(* one; v / incr is a true division of two positive integers.              *)
(***************************************************************************)
round_div(v, incr) ==
    LET q == v \div incr
        r == v % incr
    IN IF 2 * r < incr THEN q
       ELSE IF 2 * r > incr THEN q + 1
       ELSE IF q % 2 = 0 THEN q ELSE q + 1

\* round(v / incr) * incr if (v % incr) != 0 else v
quantize(v, incr) ==
    IF v % incr # 0 THEN round_div(v, incr) * incr ELSE v

_get_roi_ok(s) ==
    s._roi = ROI(s.handle.offsetX, s.handle.offsetY,
                 s.handle.width, s.handle.height)

\* lines 339-345: the exact values, offsets first reset to zero
first_attempt(s, roi) ==
    LET a == _disabled_camera_enter(s)
        b == set_offsetX(a, 0)
        c == set_offsetY(b, 0)
        d == set_width(c, roi.width)
        e == set_height(d, roi.height)
        f == set_offsetX(e, roi.left)
        g == set_offsetY(f, roi.top)
    IN _disabled_camera_exit(s, g)

\* lines 348-385: each axis that differs from the mirrored ROI is rounded to
\* its increment and written
retry_height(s, v) ==
    IF v # s._roi.height
    THEN set_height(get_increment(s), quantize(v, HeightIncrement))
    ELSE s

retry_width(s, v) ==
    IF v # s._roi.width
    THEN set_width(get_increment(s), quantize(v, WidthIncrement))
    ELSE s

retry_left(s, v) ==
    IF v # s._roi.left
    THEN set_offsetX(get_increment(s), quantize(v, OffsetXIncrement))
    ELSE s

retry_top(s, v) ==
    IF v # s._roi.top
    THEN set_offsetY(get_increment(s), quantize(v, OffsetYIncrement))
    ELSE s

retry(s, roi) ==
    LET a == _disabled_camera_enter(s)
        h == retry_height(a, roi.height)
        w == retry_width(h, roi.width)
        l == retry_left(w, roi.left)
        t == retry_top(l, roi.top)
    IN _disabled_camera_exit(s, t)

\* line 385: the local roi the correction ends with, given the mirrored ROI
retry_roi(mirror, roi) ==
    ROI(IF roi.left # mirror.left
        THEN quantize(roi.left, OffsetXIncrement) ELSE roi.left,
        IF roi.top # mirror.top
        THEN quantize(roi.top, OffsetYIncrement) ELSE roi.top,
        IF roi.width # mirror.width
        THEN quantize(roi.width, WidthIncrement) ELSE roi.width,
        IF roi.height # mirror.height
        THEN quantize(roi.height, HeightIncrement) ELSE roi.height)

\* a defective bounds test: the height is not looked at
fits_width_only(roi) == ~ (roi.width + roi.left > _sensor_shape[1])

fits(roi) ==
    ~ (roi.width + roi.left > _sensor_shape[1]
       \/ roi.height + roi.top > _sensor_shape[2])

RECURSIVE _set_roi(_, _)
_set_roi(s, roi) ==
    IF Raised(s) THEN s
    ELSE IF ~fits(roi) THEN Raise(s, PyExc("ValueError"))
    ELSE
      LET Corrected(u) ==
              IF Raised(u) THEN u
              ELSE [u EXCEPT !._roi = retry_roi(u._roi, roi)]
          Reraise(r, e) == IF Raised(r) THEN r ELSE Raise(r, e)
          Tried(t) ==
              IF ~Raised(t) THEN [t EXCEPT !._roi = roi]
              ELSE IF t.exc.kind = "Xi_error"
              THEN \* except xiapi.Xi_error as err
                   IF t.exc.status = _XI_INVALID_ARGUMENTS
                   THEN Corrected(retry([Clear(t) EXCEPT !.retried = TRUE], roi))
                   ELSE [Clear(t) EXCEPT !._roi = roi]
              ELSE \* except Exception: set it back, then raise; the nested
                   \* call is one the interpreter may refuse
                   IF t.rollbacks + 1 >= RecursionLimit
                   THEN Raise([t EXCEPT !.rollbacks = @ + 1],
                              PyExc("RecursionError"))
                   ELSE Reraise(_set_roi([Clear(t) EXCEPT !.rollbacks = @ + 1],
                                         t._roi),
                                t.exc)
      IN Tried(first_attempt(s, roi))

\* Camera.set_roi hands the request to _set_roi
set_roi(s, roi) == _set_roi(s, roi)

(***************************************************************************)
(* Trigger.                                                                *)
(***************************************************************************)
\* a defective set_trigger: a pair the table does not hold is taken for
\* software/strobe instead of being refused
set_trigger_unmapped_as_strobe(s, ttype, tmode) ==
    IF Raised(s) THEN s
    ELSE
      LET new_map == IF <<ttype, tmode>> \in DOMAIN TRIGGER_TABLE
                     THEN TRIGGER_TABLE[<<ttype, tmode>>]
                     ELSE TRIGGER_TABLE[<<"SOFTWARE", "STROBE">>]
          Store(d) == IF Raised(d) THEN d ELSE [d EXCEPT !._trigger_map = new_map]
      IN IF new_map # s._trigger_map
         THEN LET a == _disabled_camera_enter(s)
                  b == set_trigger_source(a, new_map[1])
                  c == set_trigger_selector(b, new_map[2])
              IN Store(_disabled_camera_exit(s, c))
         ELSE s

\* a defective set_trigger: the pair is pushed without a look at the cache
set_trigger_always_push(s, ttype, tmode) ==
    IF Raised(s) THEN s
    ELSE IF <<ttype, tmode>> \notin DOMAIN TRIGGER_TABLE
    THEN Raise(s, PyExc("UnsupportedFeatureError"))
    ELSE
      LET new_map == TRIGGER_TABLE[<<ttype, tmode>>]
          Store(d) == IF Raised(d) THEN d ELSE [d EXCEPT !._trigger_map = new_map]
          a == _disabled_camera_enter(s)
          b == set_trigger_source(a, new_map[1])
          c == set_trigger_selector(b, new_map[2])
      IN Store(_disabled_camera_exit(s, c))

set_trigger(s, ttype, tmode) ==
    IF Raised(s) THEN s
    ELSE IF <<ttype, tmode>> \notin DOMAIN TRIGGER_TABLE
    THEN Raise(s, PyExc("UnsupportedFeatureError"))
    ELSE
      LET new_map == TRIGGER_TABLE[<<ttype, tmode>>]
          Store(d) == IF Raised(d) THEN d ELSE [d EXCEPT !._trigger_map = new_map]
      IN IF new_map # s._trigger_map
         THEN LET a == _disabled_camera_enter(s)
                  b == set_trigger_source(a, new_map[1])
                  c == set_trigger_selector(b, new_map[2])
              IN Store(_disabled_camera_exit(s, c))
         ELSE s

\* the properties trigger_mode and trigger_type: the element of the cached
\* native pair at Python index 1, and at index 0
trigger_mode(s) == s._trigger_map[2]

trigger_type(s) == s._trigger_map[1]

_do_trigger(s) ==
    IF Raised(s) THEN s
    ELSE IF s._trigger_map = TRIGGER_TABLE[SoftwareOnce]
         THEN set_trigger_software(s)
         ELSE s

\* trigger() of the base class: refuses unless the active trigger is
\* software/once, otherwise runs _do_trigger
trigger(s) ==
    IF Raised(s) THEN s
    ELSE IF s._trigger_map # TRIGGER_TABLE[SoftwareOnce]
         THEN Raise(s, PyExc("IncompatibleStateError"))
         ELSE _do_trigger(s)

soft_trigger(s) == trigger(s)

\* _get_roi: reads the four values and asserts that the mirror equals them
get_geometry(s) == IF Raised(s) THEN s ELSE Tick(s, "get_geometry")

_get_roi(s) ==
    LET Check(t) ==
            IF Raised(t) THEN t
            ELSE IF _get_roi_ok(t) THEN t ELSE Raise(t, PyExc("AssertionError"))
    IN Check(get_geometry(get_geometry(get_geometry(get_geometry(s)))))

(***************************************************************************)
(* initialize(), as __init__ runs it on a device that has just been opened *)
(***************************************************************************)
initialize(s) ==
    LET full == ROI(0, 0, _sensor_shape[1], _sensor_shape[2])
    IN set_trigger(set_roi([s EXCEPT !._roi = full], full), "SOFTWARE", "ONCE")

(***************************************************************************)
(* The state machine.  obs is what the last call did: its name, its        *)
(* arguments, the exception it ended with, the fault the handle injected,  *)
(* the start/stop calls it made (each with the value _acquiring had when   *)
(* it was made) and whether it wrote geometry or trigger parameters.       *)
(***************************************************************************)
NoROI == ROI(0, 0, 0, 0)
NoTrigger == <<"", "">>

CallState(h, roi, acquiring, en, tmap, plan) ==
    [handle |-> h, _roi |-> roi, _acquiring |-> acquiring, enabled |-> en,
     _trigger_map |-> tmap, exc |-> NoExc, plan |-> plan, n |-> 0,
     fault |-> NoExc, called |-> FALSE, retried |-> FALSE, rollbacks |-> 0,
     acq_calls |-> <<>>, geometry_writes |-> FALSE,
     trigger_writes |-> FALSE, written_acquiring |-> FALSE, pulses |-> 0]

Begin(plan) ==
    CallState(handle, _roi, _acquiring, enabled, _trigger_map, plan)

Observed(op, roi, trig, t) ==
    [op |-> op, roi |-> roi, trig |-> trig, exc |-> t.exc, fault |-> t.fault,
     called |-> t.called, retried |-> t.retried, rollbacks |-> t.rollbacks,
     acq_calls |-> t.acq_calls, geometry_writes |-> t.geometry_writes,
     trigger_writes |-> t.trigger_writes,
     written_acquiring |-> t.written_acquiring, pulses |-> t.pulses]

\* the planned failures all happened: every plan is a behaviour of the device
Used(t) ==
    IF t.plan.len = Forever THEN t.n > t.plan.after
    ELSE t.plan.len = 0 \/ t.n >= t.plan.after + t.plan.len

\* a call on the open device ends: the object and the handle are as the
\* call left them
Commit(op, roi, trig, t) ==
    /\ handle.CAM_OPEN
    /\ Used(t)
    /\ handle' = t.handle
    /\ _roi' = t._roi
    /\ _acquiring' = t._acquiring
    /\ enabled' = t.enabled
    /\ _trigger_map' = t._trigger_map
    /\ obs' = Observed(op, roi, trig, t)
    /\ UNCHANGED <<main_pc, fetch, laser>>

\* The fetch thread: where it is in _fetch_data, the status its get_image
\* ended with, what the last _fetch_data gave its caller, and the number of
\* frames delivered so far.
FetchIdle == [pc |-> "idle", status |-> 0, result |-> "none", frames |-> 0]

\* The Cobolt laser object: the last query made of it, the line read in
\* answer and what the query returned.
LaserIdle == [op |-> "none", response |-> <<>>, result |-> FALSE]

\* the state a device can be in when it is opened
PowerOnGeometry == {<<0, 0, 8, 4>>, <<2, 2, 4, 2>>}
PowerOnTrigger == {"XI_TRG_OFF", "XI_TRG_SOFTWARE"}

\* the requests as (left, top, width, height): the full sensor, a window on
\* the grids, the same window widened off the width grid, a window off the
\* grids of left, top and height, and two that do not fit the sensor
Requests ==
    {ROI(0, 0, 8, 4), ROI(2, 0, 4, 4), ROI(2, 0, 6, 4), ROI(3, 1, 4, 3),
     ROI(2, 0, 8, 4), ROI(0, 2, 8, 3)}

Init ==
    \E g \in PowerOnGeometry, src \in PowerOnTrigger :
        LET h == [offsetX |-> g[1], offsetY |-> g[2], width |-> g[3],
                  height |-> g[4], acquiring |-> FALSE, CAM_OPEN |-> TRUE,
                  trigger_source |-> src,
                  trigger_selector |-> "XI_TRG_SEL_FRAME_START"]
            Constructed(t) ==
                /\ ~Raised(t)
                /\ handle = t.handle
                /\ _roi = t._roi
                /\ _acquiring = t._acquiring
                /\ enabled = t.enabled
                /\ _trigger_map = t._trigger_map
                /\ active_spec = SoftwareOnce
                /\ obs = Observed("initialize", NoROI, NoTrigger, t)
                /\ main_pc = "idle"
                /\ fetch = FetchIdle
                /\ laser = LaserIdle
        IN Constructed(initialize(CallState(h, NoROI, FALSE, FALSE,
                                            TRIGGER_TABLE[SoftwareOnce], NoPlan)))

Enable ==
    \E p \in Plans :
        /\ Commit("enable", NoROI, NoTrigger, enable(Begin(p)))
        /\ UNCHANGED active_spec

Disable ==
    \E p \in Plans :
        /\ Commit("disable", NoROI, NoTrigger, disable(Begin(p)))
        /\ UNCHANGED active_spec

Abort ==
    \E p \in Plans :
        /\ Commit("abort", NoROI, NoTrigger, abort(Begin(p)))
        /\ UNCHANGED active_spec

SetRoi ==
    \E p \in Plans, roi \in Requests :
        /\ Commit("set_roi", roi, NoTrigger, set_roi(Begin(p), roi))
        /\ UNCHANGED active_spec

GetRoi ==
    \E p \in Plans :
        /\ Commit("get_roi", NoROI, NoTrigger, _get_roi(Begin(p)))
        /\ UNCHANGED active_spec

SetTrigger ==
    \E p \in Plans, ttype \in TriggerType, tmode \in TriggerMode :
        LET Done(t) ==
                /\ Commit("set_trigger", NoROI, <<ttype, tmode>>, t)
                /\ active_spec' = IF Raised(t) THEN active_spec
                                  ELSE <<ttype, tmode>>
        IN Done(set_trigger(Begin(p), ttype, tmode))

Trigger ==
    \E p \in Plans :
        /\ Commit("trigger", NoROI, NoTrigger, trigger(Begin(p)))
        /\ UNCHANGED active_spec

Next ==
    \/ Enable
    \/ Disable
    \/ Abort
    \/ SetRoi
    \/ GetRoi
    \/ SetTrigger
    \/ Trigger

Spec == Init /\ [][Next]_vars

\* the ROI negotiation alone, on a camera that is enabled and disabled
NextRoi ==
    \/ Enable
    \/ Disable
    \/ SetRoi
    \/ GetRoi

SpecRoi == Init /\ [][NextRoi]_vars

\* acquisition and trigger alone
NextAcq ==
    \/ Enable
    \/ Disable
    \/ Abort
    \/ SetTrigger
    \/ Trigger

SpecAcq == Init /\ [][NextAcq]_vars

Shutdown ==
    \E p \in Plans :
        /\ Commit("shutdown", NoROI, NoTrigger, _do_shutdown(Begin(p)))
        /\ UNCHANGED active_spec

\* acquisition and trigger, up to the shutdown of the device
NextShutdown ==
    \/ Enable
    \/ Disable
    \/ Abort
    \/ SetTrigger
    \/ Trigger
    \/ Shutdown

SpecShutdown == Init /\ [][NextShutdown]_vars

\* ROI and trigger reconfiguration together, on a camera that is enabled
\* and disabled; the requests are the full sensor and one off the width grid
ReconfigureRequests == {ROI(0, 0, 8, 4), ROI(2, 0, 6, 4)}

SetRoiReconfigure ==
    \E p \in Plans, roi \in ReconfigureRequests :
        /\ Commit("set_roi", roi, NoTrigger, set_roi(Begin(p), roi))
        /\ UNCHANGED active_spec

NextReconfigure ==
    \/ Enable
    \/ Disable
    \/ SetRoiReconfigure
    \/ SetTrigger

SpecReconfigure == Init /\ [][NextReconfigure]_vars

\* set_roi on a device that fails for good
SetRoiPersistent ==
    \E p \in PersistentPlans, roi \in ReconfigureRequests :
        /\ Commit("set_roi", roi, NoTrigger, set_roi(Begin(p), roi))
        /\ UNCHANGED active_spec

NextRollback ==
    \/ Enable
    \/ Disable
    \/ SetRoiReconfigure
    \/ SetRoiPersistent

SpecRollback == Init /\ [][NextRollback]_vars

(***************************************************************************)
(* _fetch_data on the fetch thread, interleaved statement by statement     *)
(* with abort() and _do_enable() on the caller's thread.  main_pc is the   *)
(* caller's place: idle, stop (abort has cleared the flag and is about to  *)
(* call stop_acquisition) or set_flag (_do_enable has started the handle   *)
(* and is about to set the flag).                                          *)
(***************************************************************************)
MaxFrames == 2

keep == <<_roi, enabled, _trigger_map, active_spec, obs, laser>>

\* abort, 185-188: if self._acquiring: self._acquiring = False
AbortClearFlag ==
    /\ main_pc = "idle"
    /\ _acquiring
    /\ _acquiring' = FALSE
    /\ main_pc' = "stop"
    /\ UNCHANGED <<handle, fetch, keep>>

\* abort, 189-193: stop_acquisition(); when it fails the flag is put back
AbortStop ==
    /\ main_pc = "stop"
    /\ \E ok \in BOOLEAN :
          IF ok
          THEN handle' = [handle EXCEPT !.acquiring = FALSE]
               /\ UNCHANGED _acquiring
          ELSE _acquiring' = TRUE /\ UNCHANGED handle
    /\ main_pc' = "idle"
    /\ UNCHANGED <<fetch, keep>>

\* _do_enable on a camera whose flag is False, 271: start_acquisition()
EnableStart ==
    /\ main_pc = "idle"
    /\ ~_acquiring
    /\ handle' = [handle EXCEPT !.acquiring = TRUE]
    /\ main_pc' = "set_flag"
    /\ UNCHANGED <<_acquiring, fetch, keep>>

\* _do_enable, 272: self._acquiring = True
EnableSetFlag ==
    /\ main_pc = "set_flag"
    /\ _acquiring' = TRUE
    /\ main_pc' = "idle"
    /\ UNCHANGED <<handle, fetch, keep>>

\* _fetch_data, 156-157: if not self._acquiring: return None
FetchCheckFlag ==
    /\ fetch.pc = "idle"
    /\ fetch.frames < MaxFrames
    /\ fetch' = IF _acquiring
                THEN [fetch EXCEPT !.pc = "get_image", !.status = 0,
                                   !.result = "none"]
                ELSE [fetch EXCEPT !.status = 0, !.result = "no_frame"]
    /\ UNCHANGED <<handle, _acquiring, main_pc, keep>>

\* _fetch_data, 159-160: get_image(timeout=1) ends with a frame (status 0)
\* or a timeout on an acquiring handle, with acquisition-stopped on a
\* stopped one
FetchGetImage ==
    /\ fetch.pc = "get_image"
    /\ \E st \in IF handle.acquiring THEN {0, _XI_TIMEOUT}
                  ELSE {_XI_ACQUISITION_STOPED} :
          fetch' = [fetch EXCEPT !.pc = "got", !.status = st]
    /\ UNCHANGED <<handle, _acquiring, main_pc, keep>>

\* _fetch_data, 161-180: the except clause, or the frame
FetchReturn ==
    /\ fetch.pc = "got"
    /\ fetch' =
         IF fetch.status = 0
         THEN [fetch EXCEPT !.pc = "idle", !.result = "frame", !.frames = @ + 1]
         ELSE IF fetch.status = _XI_TIMEOUT
         THEN [fetch EXCEPT !.pc = "idle", !.result = "no_frame"]
         ELSE IF fetch.status = _XI_ACQUISITION_STOPED /\ ~_acquiring
         THEN [fetch EXCEPT !.pc = "idle", !.result = "no_frame"]
         ELSE [fetch EXCEPT !.pc = "idle", !.result = "raised"]
    /\ UNCHANGED <<handle, _acquiring, main_pc, keep>>

NextFetch ==
    \/ AbortClearFlag
    \/ AbortStop
    \/ EnableStart
    \/ EnableSetFlag
    \/ FetchCheckFlag
    \/ FetchGetImage
    \/ FetchReturn

SpecFetch == Init /\ [][NextFetch]_vars

(***************************************************************************)
(* lasers.cobolt.CoboltLaser.  A response is the bytes object that send()  *)
(* returns, a sequence of bytes; the read gives an empty one on a timeout. *)
(* Bytes are written as one-character strings.                             *)
(***************************************************************************)
MaxResponse == 3
Bytes == {"0", "1", "2"}
Responses == UNION {[1..n -> Bytes] : n \in 0..MaxResponse}

\* Python's `a in b` for two bytes objects: a is a run of consecutive bytes
\* of b; the empty bytes object is in every bytes object
bytes_in(a, b) ==
    \E i \in 0..(Len(b) - Len(a)) : SubSeq(b, i + 1, i + Len(a)) = a

\* is_alive: response = self.send(b'l?'); return response in b'01'
is_alive(response) == bytes_in(response, <<"0", "1">>)

\* get_is_on: response = self.send(b'l?'); return response == b'1'
get_is_on(response) == response = <<"1">>

\* send(b'l?') returns whatever line the serial link gives
IsAlive ==
    /\ \E response \in Responses :
          laser' = [op |-> "is_alive", response |-> response,
                    result |-> is_alive(response)]
    /\ UNCHANGED <<handle, _acquiring, main_pc, fetch, _roi, enabled,
                   _trigger_map, active_spec, obs>>

GetIsOn ==
    /\ \E response \in Responses :
          laser' = [op |-> "get_is_on", response |-> response,
                    result |-> get_is_on(response)]
    /\ UNCHANGED <<handle, _acquiring, main_pc, fetch, _roi, enabled,
                   _trigger_map, active_spec, obs>>

NextLaser ==
    \/ IsAlive
    \/ GetIsOn

SpecLaser == Init /\ [][NextLaser]_vars

(***************************************************************************)
(* Properties.                                                             *)
(***************************************************************************)
Failed == obs.exc.kind # "none"
CallNames(calls) == [i \in 1..Len(calls) |-> calls[i].call]
Mirrored(h) == ROI(h.offsetX, h.offsetY, h.width, h.height)
OnGrid(roi) ==
    /\ roi.left % OffsetXIncrement = 0
    /\ roi.top % OffsetYIncrement = 0
    /\ roi.width % WidthIncrement = 0
    /\ roi.height % HeightIncrement = 0

\* C1: a set_roi during which a handle call fails with an error other than
\* invalid-arguments ends with an error and with the mirrored ROI it began
\* with.
C1_FailedSetRoiKeepsMirror ==
    [][(obs'.op = "set_roi" /\ obs'.fault.kind # "none")
         => (obs'.exc.kind # "none" /\ _roi' = _roi)]_vars

\* C2: between calls the mirrored ROI equals the offsets and sizes the
\* handle holds, so the assertion of _get_roi holds.
C2_MirrorEqualsHardware == _roi = Mirrored(handle)

\* C3: a set_roi during which a handle call raises an Xi_error whose status
\* is not invalid-arguments does not return normally and does not move the
\* mirrored ROI to the requested one.
C3_XiErrorPropagates ==
    [][(obs'.op = "set_roi" /\ obs'.fault.kind = "Xi_error"
        /\ obs'.fault.status # _XI_INVALID_ARGUMENTS)
         => (obs'.exc.kind # "none" /\ (_roi' = obs'.roi => _roi = obs'.roi))]_vars

C5_AppliedRoiInsideSensor ==
    (obs.op = "set_roi" /\ ~Failed) =>
        /\ _roi.left + _roi.width <= SensorWidth
        /\ _roi.top + _roi.height <= SensorHeight

\* C6: a set_roi that returns normally through the correction path leaves a
\* mirrored ROI whose four values are multiples of their increments and that
\* differs from the request only where the request was off the increment.
C6_CorrectedRoiOnGrid ==
    (obs.op = "set_roi" /\ obs.retried /\ ~Failed) =>
        /\ OnGrid(_roi)
        /\ _roi.left # obs.roi.left => obs.roi.left % OffsetXIncrement # 0
        /\ _roi.top # obs.roi.top => obs.roi.top % OffsetYIncrement # 0
        /\ _roi.width # obs.roi.width => obs.roi.width % WidthIncrement # 0
        /\ _roi.height # obs.roi.height => obs.roi.height % HeightIncrement # 0

\* C7: a set_roi whose request does not fit the sensor ends with a
\* ValueError, keeps the mirrored ROI, makes no handle call (no geometry
\* write, no stop, no start) and leaves the acquisition state alone.
C7_OutOfBoundsRejected ==
    [][(obs'.op = "set_roi"
        /\ (obs'.roi.left + obs'.roi.width > SensorWidth
            \/ obs'.roi.top + obs'.roi.height > SensorHeight))
         => /\ obs'.exc = PyExc("ValueError")
            /\ _roi' = _roi
            /\ ~obs'.geometry_writes
            /\ obs'.acq_calls = <<>>
            /\ ~obs'.called
            /\ handle' = handle
            /\ _acquiring' = _acquiring
            /\ enabled' = enabled]_vars

C7_Witness ==
    /\ obs.op = "set_roi"
    /\ obs.roi.left + obs.roi.width <= SensorWidth
    /\ obs.roi.top + obs.roi.height > SensorHeight
    /\ obs.exc = PyExc("ValueError")
    /\ enabled
    /\ _acquiring

StartRejected(o) ==
    /\ o.op = "enable"
    /\ o.acq_calls # <<>>
    /\ o.acq_calls[Len(o.acq_calls)].call = "start_acquisition"
    /\ ~o.acq_calls[Len(o.acq_calls)].ok

\* C8 as stated: an enable() whose start call the handle rejects ends with
\* an error and with the acquisition state it began with.
C8_RejectedEnableKeepsState ==
    [][StartRejected(obs') => (obs'.exc.kind # "none" /\ _acquiring' = _acquiring)]_vars

\* C8 amended: an enable() whose start call the handle rejects ends with an
\* error and not acquiring (flag and handle); that is the state it began
\* with only when the device was not acquiring before the call.
C8_RejectedEnableEndsStopped ==
    [][StartRejected(obs')
         => /\ obs'.exc.kind # "none"
            /\ ~_acquiring'
            /\ ~handle'.acquiring
            /\ (~_acquiring => _acquiring' = _acquiring)]_vars

C8_Witness ==
    /\ StartRejected(obs)
    /\ Len(obs.acq_calls) = 2
    /\ obs.acq_calls[1].call = "stop_acquisition"
    /\ obs.acq_calls[1].ok
    /\ Failed
    /\ ~_acquiring

\* C9: abort()/disable() on an acquiring device makes one stop call, made
\* with the flag already False; when the call fails the error is raised and
\* the flag is True again, when it succeeds the flag is False.
C9_AbortRollsBack ==
    [][(obs'.op \in {"abort", "disable"} /\ _acquiring)
         => /\ Len(obs'.acq_calls) = 1
            /\ obs'.acq_calls[1].call = "stop_acquisition"
            /\ obs'.acq_calls[1].flag = FALSE
            /\ obs'.acq_calls[1].ok => (obs'.exc.kind = "none" /\ ~_acquiring')
            /\ ~obs'.acq_calls[1].ok => (obs'.exc.kind # "none" /\ _acquiring')]_vars

C9_Witness ==
    /\ obs.op = "abort"
    /\ obs.acq_calls = <<[call |-> "stop_acquisition", ok |-> FALSE, flag |-> FALSE]>>
    /\ Failed
    /\ _acquiring

\* C10: enable() on an acquiring device makes exactly one stop call and,
\* unless that call fails, exactly one start call after it; when enable()
\* returns normally it has made both and the device is acquiring; disable()
\* on a device that is not acquiring makes no handle call and leaves the
\* state as it was.
C10_RestartOnceAndIdleDisable ==
    [][/\ (obs'.op = "enable" /\ _acquiring)
            => /\ obs'.acq_calls # <<>>
               /\ CallNames(obs'.acq_calls) =
                    IF obs'.acq_calls[1].ok
                    THEN <<"stop_acquisition", "start_acquisition">>
                    ELSE <<"stop_acquisition">>
               /\ obs'.exc.kind = "none"
                    => /\ CallNames(obs'.acq_calls)
                            = <<"stop_acquisition", "start_acquisition">>
                       /\ _acquiring'
                       /\ handle'.acquiring
       /\ (obs'.op = "disable" /\ ~_acquiring)
            => /\ ~obs'.called
               /\ obs'.exc.kind = "none"
               /\ handle' = handle
               /\ _acquiring' = _acquiring]_vars

C10_Witness ==
    /\ obs.op = "enable"
    /\ obs.acq_calls =
         <<[call |-> "stop_acquisition", ok |-> TRUE, flag |-> FALSE],
           [call |-> "start_acquisition", ok |-> TRUE, flag |-> FALSE]>>
    /\ ~Failed
    /\ _acquiring

MappedPairs ==
    {<<"SOFTWARE", "STROBE">>, <<"SOFTWARE", "ONCE">>, <<"RISING_EDGE", "ONCE">>}

\* C11: a set_trigger whose (type, mode) pair is not in the mapping table
\* ends with an UnsupportedFeatureError, keeps the cached pair, writes no
\* trigger parameter to the handle and neither stops nor restarts the
\* acquisition.
C11_UnmappedTriggerRejected ==
    [][(obs'.op = "set_trigger" /\ obs'.trig \notin MappedPairs)
         => /\ obs'.exc = PyExc("UnsupportedFeatureError")
            /\ _trigger_map' = _trigger_map
            /\ ~obs'.trigger_writes
            /\ obs'.acq_calls = <<>>
            /\ ~obs'.called
            /\ handle' = handle
            /\ _acquiring' = _acquiring
            /\ enabled' = enabled]_vars

C11_Witness ==
    /\ obs.op = "set_trigger"
    /\ obs.trig = <<"FALLING_EDGE", "ONCE">>
    /\ obs.exc = PyExc("UnsupportedFeatureError")
    /\ enabled
    /\ _acquiring
    /\ _trigger_map = TRIGGER_TABLE[<<"RISING_EDGE", "ONCE">>]

SetTriggerReturned(o) ==
    o.op = "set_trigger" /\ o.trig \in MappedPairs /\ o.exc.kind = "none"

\* C12: a set_trigger that returns normally and follows a set_trigger that
\* returned normally with the same mapped pair does nothing: no handle call
\* at all, so no trigger write and no stop or start of the acquisition.
C12_RepeatedSetTriggerIdle ==
    [][(SetTriggerReturned(obs) /\ SetTriggerReturned(obs')
        /\ obs'.trig = obs.trig)
         => /\ ~obs'.trigger_writes
            /\ obs'.acq_calls = <<>>
            /\ ~obs'.called
            /\ handle' = handle
            /\ _trigger_map' = _trigger_map
            /\ _acquiring' = _acquiring
            /\ enabled' = enabled]_vars

\* the repeated call on an acquiring camera whose cached pair is not the one
\* of the constructor, so that an earlier set_trigger has pushed it
C12_Witness ==
    /\ SetTriggerReturned(obs)
    /\ obs.trig = <<"RISING_EDGE", "ONCE">>
    /\ ~obs.called
    /\ _trigger_map = TRIGGER_TABLE[<<"RISING_EDGE", "ONCE">>]
    /\ handle.trigger_source = "XI_TRG_EDGE_RISING"
    /\ enabled
    /\ _acquiring

\* the set_trigger call went through the with-block of _disabled_camera
ScopedDisable(o, cached) ==
    o.op = "set_trigger" /\ o.trig \in MappedPairs
    /\ TRIGGER_TABLE[o.trig] # cached

LastStartFailed(o) ==
    /\ o.acq_calls # <<>>
    /\ o.acq_calls[Len(o.acq_calls)].call = "start_acquisition"
    /\ ~o.acq_calls[Len(o.acq_calls)].ok

C14_StoppedFetchNeverRaises ==
    ~ (fetch.pc = "idle" /\ fetch.status = _XI_ACQUISITION_STOPED
       /\ fetch.result = "raised")

\* C15: every write of offset-X, offset-Y, width or height that set_roi
\* makes (first attempt, correction, rollback) and every write of the
\* trigger source or selector that set_trigger makes reaches a handle that
\* is not acquiring.
C15_WritesWhileStopped ==
    obs.op \in {"set_roi", "set_trigger"} => ~obs.written_acquiring

\* writes of the correction path on a camera that was acquiring
C15_Witness ==
    /\ obs.op = "set_roi"
    /\ obs.retried
    /\ obs.geometry_writes
    /\ CallNames(obs.acq_calls) =
         <<"stop_acquisition", "start_acquisition",
           "stop_acquisition", "start_acquisition">>
    /\ ~obs.written_acquiring
    /\ ~Failed

\* C16: when a set_roi returns normally through the correction path, no
\* handle call having failed for another reason than the handle's own
\* validation, every axis the correction skipped (its requested value equals
\* the one of the mirrored ROI the call began with) holds in the handle, at
\* the end of the call, the value the applied ROI has for it; so left and
\* top, which the first attempt reset to zero, have been written back.
C16_SkippedAxesHoldAppliedValue ==
    [][(obs'.op = "set_roi" /\ obs'.retried /\ obs'.exc.kind = "none"
        /\ obs'.fault.kind = "none")
         => /\ obs'.roi.left = _roi.left => handle'.offsetX = _roi'.left
            /\ obs'.roi.top = _roi.top => handle'.offsetY = _roi'.top
            /\ obs'.roi.width = _roi.width => handle'.width = _roi'.width
            /\ obs'.roi.height = _roi.height => handle'.height = _roi'.height]_vars

\* C17: between calls, from the end of initialize() on and after any
\* set_trigger calls, the trigger source and selector the handle holds are
\* the native pair cached for the active trigger; so right after
\* initialize() the handle is set for software/once whatever it held when it
\* was opened.
C17_HardwareTriggerIsCachedPair ==
    <<handle.trigger_source, handle.trigger_selector>> = _trigger_map

\* C18: between calls of enable, disable, abort and shutdown, whose start
\* and stop calls can fail, the flag _acquiring is True exactly when the
\* handle is acquiring.
C18_FlagIsHardwareState == _acquiring <=> handle.acquiring

\* C19: every set_roi ends, by returning or by raising, after a number of
\* rollback attempts that the code bounds itself, also on a device whose
\* calls keep failing during the rollback: the nesting of rollbacks never
\* reaches the depth at which the interpreter refuses the call.
C19_RollbackEndsByItself ==
    obs.op = "set_roi"
        => (obs.rollbacks < RecursionLimit
            /\ obs.exc # PyExc("RecursionError"))

\* C20: after a set_trigger(type, mode) with a mapped pair has returned
\* normally, the property trigger_type gives that TriggerType and the
\* property trigger_mode that TriggerMode.
C20_TriggerPropertiesRoundTrip ==
    SetTriggerReturned(obs)
        => /\ trigger_type(Begin(NoPlan)) = obs.trig[1]
           /\ trigger_mode(Begin(NoPlan)) = obs.trig[2]

\* C21: is_alive() returns True only when the line read in answer to 'l?'
\* is exactly '0' or exactly '1'; for every other line, the empty line of a
\* read that timed out included, it returns False.
C21_AliveOnlyOnZeroOrOne ==
    laser.op = "is_alive"
        => (laser.result <=> laser.response \in {<<"0">>, <<"1">>})

====
